---- MODULE Spec2Model ----
(***************************************************************************)
(* A model of src/bot.py: the Threads lead-generation bot.                 *)
(*                                                                         *)
(* The state is the module-level state of bot.py (settings, the persisted  *)
(* settings file, seen_posts, monitoring_task) and the position and locals *)
(* of every monitor_loop coroutine that was ever created.  One action per  *)
(* command handler, and one action per resumption of monitor_loop at each  *)
(* of its suspension points.  Command handlers mutate state before their   *)
(* only await (the reply), so each handler is one atomic step.             *)
(*                                                                         *)
(* asyncio semantics assumed (Python >= 3.8): CancelledError derives from  *)
(* BaseException, so `except Exception` does not catch it; Task.cancel()   *)
(* makes the task's next resumption raise CancelledError at the await it   *)
(* is suspended on, and done() stays False until that resumption ran.      *)
(***************************************************************************)
EXTENDS Integers, Sequences, FiniteSets, TLC

VARIABLES
    settings,         \* bot.py:63  the in-memory settings dict
    settings_file,    \* settings.json: <<>> when absent, <<dict>> otherwise
    seen_posts,       \* bot.py:64  set of post ids
    tasks,            \* every monitor_loop task created so far (bot.py:349)
    monitoring_task,  \* bot.py:65  0 for None, else an index into tasks
    classify_calls,   \* history: post id -> number of analyze_post invocations
    notifications     \* history: post id -> number of send_message calls

vars == <<settings, settings_file, seen_posts, tasks, monitoring_task,
          classify_calls, notifications>>

(***************************************************************************)
(* Bounds of the model.                                                    *)
(***************************************************************************)
MaxBatch == 2   \* posts extracted from one scraped page
MaxTasks == 2   \* monitor_loop tasks created in one run

(***************************************************************************)
(* Program constants.                                                      *)
(***************************************************************************)
PostIdPrefixLen == 50   \* bot.py:373  text[:50]
MinTextLen == 20        \* bot.py:379  len(text) < 20
ParseLimit == 20        \* bot.py:125  text_pattern[:20]
DegradedScore == 5      \* bot.py:202
DefaultMinScore == 5    \* bot.py:47
ScoreFloor == 0         \* bot.py:304  max(0, ...)
ScoreCeil == 10         \* bot.py:304  min(10, ...)
SummaryLimit == 300     \* bot.py:205  text[:300]

(***************************************************************************)
(* Generic helpers: Python slicing, min and max.                           *)
(***************************************************************************)
Min(a, b) == IF a < b THEN a ELSE b
Max(a, b) == IF a > b THEN a ELSE b

\* s[:n]
Take(s, n) == SubSeq(s, 1, Min(n, Len(s)))

Range(s) == {s[i] : i \in 1..Len(s)}

(***************************************************************************)
(* Command arguments (context.args) the operator may send.                 *)
(***************************************************************************)
KeywordArgs == { <<>>, <<"crm", "erp", "crm">> }
ScoreArgs == { <<>>, <<"abc">>, <<"5">>, <<"6">> }
ProductArgs == { <<>> }
NameArgs == { <<>> }
LanguageArgs == { <<>> }

\* The same commands over a wider range of arguments (ConfigSpec).
ConfigKeywordArgs ==
    KeywordArgs
    \cup { <<"erp">>, <<"b2b", "b2b">>, <<"erp", "crm", "erp", "b2b", "crm">> }

ConfigScoreArgs ==
    ScoreArgs
    \cup { <<"-3">>, <<"-1">>, <<"0">>, <<"10">>, <<"11">>, <<"42">>,
           <<"6.5">>, <<"7", "abc">> }

ConfigProductArgs == { <<>>, <<"web", "design">>, <<"the", "\"best\"", "crm">> }
ConfigNameArgs == { <<>>, <<"Olek">> }
ConfigLanguageArgs == { <<>>, <<"en", "uk">> }

\* list(dict.fromkeys(args)): first occurrences, in order
RECURSIVE DedupFrom(_, _)
DedupFrom(args, acc) ==
    IF args = <<>> THEN acc
    ELSE DedupFrom(Tail(args),
                   IF Head(args) \in Range(acc) THEN acc
                   ELSE Append(acc, Head(args)))

\* Faulty variant of Dedup: the arguments are stored as given.
KeepAll(args) == args

Dedup(args) == DedupFrom(args, <<>>)

\* " ".join(args)
RECURSIVE Join(_)
Join(args) ==
    IF args = <<>> THEN ""
    ELSE IF Len(args) = 1 THEN args[1]
    ELSE args[1] \o " " \o Join(Tail(args))

(***************************************************************************)
(* Settings: defaults, load and save.  settings.json is modelled as the    *)
(* JSON object that json.dump writes: one member per key, whose value is   *)
(* the JSON text of a scalar (decimal digits for an int, a quoted and      *)
(* escaped string for a str) or, for the keywords array, the sequence of   *)
(* the JSON texts of its elements.                                         *)
(***************************************************************************)
DEFAULT_SETTINGS ==
    [mode |-> "notify", keywords |-> <<>>, min_score |-> DefaultMinScore,
     your_product |-> "", your_name |-> "", language |-> "uk"]

\* {**DEFAULT_SETTINGS, **json.load(f)}: the file's keys win, missing keys default
Merge(base, over) ==
    [k \in DOMAIN base \cup DOMAIN over |->
        IF k \in DOMAIN over THEN over[k] ELSE base[k]]

Digits == <<"0", "1", "2", "3", "4", "5", "6", "7", "8", "9">>
IsDigit(c) == \E d \in 1..10 : Digits[d] = c
DigitVal(c) == (CHOOSE d \in 1..10 : Digits[d] = c) - 1

RECURSIVE DigitsValue(_, _)
DigitsValue(s, acc) ==
    IF s = "" THEN acc
    ELSE DigitsValue(SubSeq(s, 2, Len(s)), 10 * acc + DigitVal(SubSeq(s, 1, 1)))

AllDigits(s) == Len(s) > 0 /\ \A i \in 1..Len(s) : IsDigit(SubSeq(s, i, i))

\* int(s): <<n>>, or <<>> for ValueError.  Optional sign, then decimal digits.
ParseInt(s) ==
    LET signed == Len(s) > 0 /\ SubSeq(s, 1, 1) \in {"-", "+"}
        body == IF signed THEN SubSeq(s, 2, Len(s)) ELSE s
    IN IF ~AllDigits(body) THEN <<>>
       ELSE IF signed /\ SubSeq(s, 1, 1) = "-" THEN << 0 - DigitsValue(body, 0) >>
       ELSE << DigitsValue(body, 0) >>

\* The JSON text of an int.
RECURSIVE FormatNat(_)
FormatNat(n) ==
    IF n < 10 THEN Digits[n + 1]
    ELSE FormatNat(n \div 10) \o Digits[(n % 10) + 1]

FormatInt(n) == IF n < 0 THEN "-" \o FormatNat(0 - n) ELSE FormatNat(n)

\* The JSON text of a str (ensure_ascii=False): quoted, with the quote and
\* the backslash escaped by a backslash.
\* The positions of the backslashes of s.
Backslashes(s) == { i \in 1..Len(s) : SubSeq(s, i, i) = "\\" }

Specials(s) == { i \in 1..Len(s) : SubSeq(s, i, i) \in {"\"", "\\"} }

RECURSIVE JsonEscape(_)
JsonEscape(s) ==
    IF Specials(s) = {} THEN s
    ELSE LET i == CHOOSE k \in Specials(s) : \A j \in Specials(s) : k <= j
         IN SubSeq(s, 1, i - 1) \o "\\" \o SubSeq(s, i, i)
                \o JsonEscape(SubSeq(s, i + 1, Len(s)))

RECURSIVE JsonUnescape(_)
JsonUnescape(s) ==
    IF Backslashes(s) = {} THEN s
    ELSE LET i == CHOOSE k \in Backslashes(s) : \A j \in Backslashes(s) : k <= j
         IN SubSeq(s, 1, i - 1) \o SubSeq(s, i + 1, Min(i + 1, Len(s)))
                \o JsonUnescape(SubSeq(s, i + 2, Len(s)))

JsonString(s) == "\"" \o JsonEscape(s) \o "\""

\* Every str the settings can hold, and the JSON text of each (computed once).
SettingStrings ==
    { DEFAULT_SETTINGS[k] : k \in {"mode", "your_product", "your_name", "language"} }
    \cup { "auto_send" }
    \cup UNION { Range(args) : args \in ConfigKeywordArgs }
    \cup { Join(args) : args \in ConfigProductArgs \cup ConfigNameArgs }
    \cup { args[1] : args \in ConfigLanguageArgs \ { <<>> } }

JsonStrings == [s \in SettingStrings |-> JsonString(s)]

\* The decoder on a scalar: a text that starts with a quote is a str, any
\* other is an int.
JsonScalar(text) ==
    IF SubSeq(text, 1, 1) = "\""
    THEN JsonUnescape(SubSeq(text, 2, Len(text) - 1))
    ELSE ParseInt(text)[1]

\* json.dump(s, f, ...) and json.load(f), by the type each key holds.
json_dump(s) ==
    [k \in DOMAIN s |->
        IF k = "keywords" THEN [i \in 1..Len(s[k]) |-> JsonStrings[s[k][i]]]
        ELSE IF k = "min_score" THEN FormatInt(s[k])
        ELSE JsonStrings[s[k]]]

json_load(doc) ==
    [k \in DOMAIN doc |->
        IF k = "keywords" THEN [i \in 1..Len(doc[k]) |-> JsonScalar(doc[k][i])]
        ELSE JsonScalar(doc[k])]

load_settings(file) ==
    IF file # <<>> THEN Merge(DEFAULT_SETTINGS, json_load(file[1]))
    ELSE DEFAULT_SETTINGS

\* Faulty variant of save_settings: the write is lost, the file stays as it is.
save_settings_lost(s) == settings_file

\* open(SETTINGS_FILE, "w") truncates, json.dump writes the whole dict.
save_settings(s) == << json_dump(s) >>

\* The settings files a previous run may have left behind.
InitFiles ==
    { <<>>, <<[keywords |-> << "\"crm\"" >>]>> }

\* Faulty variant of Clamp: the integer is stored as given.
Unclamped(n) == n

\* max(0, min(10, n))
Clamp(n) == Max(ScoreFloor, Min(ScoreCeil, n))

(***************************************************************************)
(* The content source: what re.findall extracts from a scraped page.       *)
(* A primary match is (text, user_id, username); a fallback match is       *)
(* (username, full_name, text).  Texts are the raw, still escaped strings. *)
(***************************************************************************)
TextCrmA ==
    "Need a CRM for my 5-person team, which one is cheap and easy to set up?"
TextCrmB ==
    "Need a CRM for my 5-person team, which one is cheaper than a spreadsheet"
TextShort == "hi\\n\\n\\n\\n\\n\\n\\n\\n\\n"
TextDesign == "Looking for a web designer to rebuild our landing page this month"

PrimaryMatches ==
    { [text |-> TextCrmA, user_id |-> "101", username |-> "ann"],
      [text |-> TextCrmB, user_id |-> "101", username |-> "ann"],
      [text |-> TextDesign, user_id |-> "202", username |-> "bob"] }

FallbackMatches ==
    { [username |-> "bob", full_name |-> "Bob B", text |-> TextShort] }

RECURSIVE SeqsUpTo(_, _)
SeqsUpTo(S, n) ==
    IF n = 0 THEN { <<>> }
    ELSE LET shorter == SeqsUpTo(S, n - 1)
         IN shorter \cup { Append(q, x) : q \in shorter, x \in S }

\* More matches than an extraction loop takes: captions of one author that
\* differ only after their first 50 characters.
Letters == "abcdefghijklmnopqrstuvwxyz"

ManyTexts ==
    [i \in 1..(ParseLimit + 1) |->
        Take(TextCrmA, PostIdPrefixLen) \o "p " \o SubSeq(Letters, i, i)]

ManyPrimary ==
    [i \in 1..(ParseLimit + 1) |->
        [text |-> ManyTexts[i], user_id |-> "101", username |-> "ann"]]

ManyFallback ==
    [i \in 1..(ParseLimit + 1) |->
        [username |-> "ann", full_name |-> "Ann A", text |-> ManyTexts[i]]]

\* A page as the scraper sees it: the launch, navigation or extraction failed
\* (error), or the two re.findall result lists.
Pages ==
    { [error |-> TRUE, primary |-> <<>>, fallback |-> <<>>] }
    \cup { [error |-> FALSE, primary |-> p, fallback |-> <<>>] :
             p \in SeqsUpTo(PrimaryMatches, MaxBatch) \cup {ManyPrimary} }
    \cup { [error |-> FALSE, primary |-> <<>>, fallback |-> f] :
             f \in SeqsUpTo(FallbackMatches, 1) \cup {ManyFallback} }

\* text.encode().decode('unicode_escape') on the escapes the pool texts use:
\* backslash-n becomes a newline, a doubled backslash becomes one; the text up
\* to the first backslash is copied as it is.

RECURSIVE UnicodeEscape(_)
UnicodeEscape(s) ==
    IF Backslashes(s) = {} THEN s
    ELSE LET i == CHOOSE k \in Backslashes(s) : \A j \in Backslashes(s) : k <= j
             esc == SubSeq(s, i, Min(i + 1, Len(s)))
             rest == UnicodeEscape(SubSeq(s, i + 2, Len(s)))
         IN IF esc = "\\n" THEN SubSeq(s, 1, i - 1) \o "\n" \o rest
            ELSE IF esc = "\\\\" THEN SubSeq(s, 1, i - 1) \o "\\" \o rest
            ELSE SubSeq(s, 1, i - 1) \o esc \o rest

\* The decoded text of every raw text of the pool (computed once).
RawTexts ==
    { m.text : m \in PrimaryMatches \cup FallbackMatches } \cup Range(ManyTexts)

Decoded == [s \in RawTexts |-> UnicodeEscape(s)]

PrimaryPost(m, keyword) ==
    [text |-> Decoded[m.text], author |-> m.username,
     author_id |-> m.user_id,
     url |-> "https://www.threads.net/@" \o m.username, keyword |-> keyword]

FallbackPost(m, keyword) ==
    [text |-> Decoded[m.text], author |-> m.username,
     author_name |-> m.full_name,
     url |-> "https://www.threads.net/@" \o m.username, keyword |-> keyword]

\* One extraction loop: skip a text already in seen_texts, else append.
\* Returns the posts and the seen_texts set after the loop.
RECURSIVE ExtractLoop(_, _, _, _, _)
ExtractLoop(matches, keyword, primary, posts, seen_texts) ==
    IF matches = <<>> THEN [posts |-> posts, seen_texts |-> seen_texts]
    ELSE LET m == Head(matches)
             post == IF primary THEN PrimaryPost(m, keyword)
                     ELSE FallbackPost(m, keyword)
         IN IF post.text \in seen_texts
            THEN ExtractLoop(Tail(matches), keyword, primary, posts, seen_texts)
            ELSE ExtractLoop(Tail(matches), keyword, primary,
                             Append(posts, post),
                             seen_texts \cup {post.text})

\* Faulty variant of parse_threads_html: the [:20] slices are missing.
parse_threads_html_unlimited(page, keyword) ==
    LET first == ExtractLoop(page.primary, keyword, TRUE, <<>>, {})
    IN IF first.posts # <<>> THEN first.posts
       ELSE ExtractLoop(page.fallback, keyword, FALSE, <<>>,
                        first.seen_texts).posts

parse_threads_html(page, keyword) ==
    LET first == ExtractLoop(Take(page.primary, ParseLimit), keyword, TRUE,
                             <<>>, {})
    IN IF first.posts # <<>> THEN first.posts
       ELSE ExtractLoop(Take(page.fallback, ParseLimit), keyword, FALSE,
                        <<>>, first.seen_texts).posts

\* scrape_threads: any exception inside the try leaves posts = []
scrape_threads(page, keyword) ==
    IF page.error THEN <<>> ELSE parse_threads_html(page, keyword)

\* post.get("url", "") + (post.get("text") or "")[:50]
post_id(post) == post.url \o Take(post.text, PostIdPrefixLen)

AllPosts ==
    { PrimaryPost(m, k) : m \in PrimaryMatches, k \in {"crm", "erp"} }
    \cup { FallbackPost(m, k) : m \in FallbackMatches, k \in {"crm", "erp"} }

AllIds == { post_id(p) : p \in AllPosts }

(***************************************************************************)
(* The classifier: the API's answer and analyze_post.                      *)
(***************************************************************************)
LeadInsights ==
    [likely_role |-> "founder", company_stage |-> "startup",
     buying_intent |-> "high", personality |-> "direct"]

Verdict(score) ==
    [relevance_score |-> score, pain_points |-> <<"no crm">>,
     author_insights |-> LeadInsights,
     opportunity_summary |-> "needs a tool now",
     outreach_message |-> "hello"]

VerdictScores == {8}

JsonText(score) == "{\"relevance_score\": 8, ...}"

\* The JSON documents of the model and what json.loads returns for each;
\* every other text makes json.loads raise.
JsonDocs ==
    { [text |-> JsonText(s), value |-> Verdict(s)] : s \in VerdictScores }
    \cup { [text |-> "{\"pain_points\": []}", value |-> [pain_points |-> <<>>]] }

\* json.loads(text): <<value>>, or <<>> when it raises
json_loads(text) ==
    IF \E d \in JsonDocs : d.text = text
    THEN << (CHOOSE d \in JsonDocs : d.text = text).value >>
    ELSE <<>>

\* What client.messages.create does: raises (failed), or returns a message
\* whose content[0].text is text.
Responses ==
    { [failed |-> TRUE, text |-> ""] }
    \cup { [failed |-> FALSE, text |-> d.text] : d \in JsonDocs }
    \cup { [failed |-> FALSE, text |-> "Sorry, I cannot rate this post."] }

DegradedVerdict(raw) ==
    [relevance_score |-> DegradedScore, pain_points |-> <<>>,
     author_insights |-> [likely_role |-> "?", company_stage |-> "?",
                          buying_intent |-> "medium", personality |-> "?"],
     opportunity_summary |-> Take(raw, SummaryLimit),
     outreach_message |-> "Privit!"]

\* Faulty variant of analyze_post: json.loads is not guarded either.
analyze_post_unguarded(response) ==
    IF response.failed \/ json_loads(response.text) = <<>>
    THEN [raised |-> TRUE, value |-> <<>>]
    ELSE [raised |-> FALSE, value |-> json_loads(response.text)[1]]

\* analyze_post: [raised, value].  messages.create is outside the try, so its
\* failure propagates; only json.loads is guarded.
analyze_post(response) ==
    IF response.failed THEN [raised |-> TRUE, value |-> <<>>]
    ELSE LET parsed == json_loads(response.text)
         IN IF parsed # <<>> THEN [raised |-> FALSE, value |-> parsed[1]]
            ELSE [raised |-> FALSE, value |-> DegradedVerdict(response.text)]

(***************************************************************************)
(* monitor_loop: one record per task, holding its position (pc) and the    *)
(* locals that are live across a suspension.                               *)
(*   created    the task exists, its coroutine has not run yet             *)
(*   scrape     awaiting scrape_threads(keyword)          line 369         *)
(*   classify   awaiting run_in_executor(analyze_post)    line 386         *)
(*   send       awaiting app.bot.send_message             line 398         *)
(*   sleep2     awaiting asyncio.sleep(2)                 line 405         *)
(*   sleep10    awaiting asyncio.sleep(10)                line 407         *)
(*   sleep1800  awaiting asyncio.sleep(1800)              line 414         *)
(*   finished   the coroutine returned (break at line 410)                 *)
(*   cancelled  CancelledError left the coroutine                          *)
(* result is the executor future: <<>> while analyze_post runs, else       *)
(* <<[response, outcome]>> (response kept as history of what was parsed).  *)
(* analysis and gate_config are kept while the lead built from them is     *)
(* being sent: the verdict, and min_score as it was when the gate ran.     *)
(* skipped holds the ids of the current batch that line 375 skipped as     *)
(* already seen (history, dropped with the batch).  had_error              *)
(* says that the sleep at line 414 was reached through the except branch   *)
(* of lines 411-412.  min_score_at_call is history: settings["min_score"]  *)
(* as it was when the classifier call of the current post was started.     *)
(***************************************************************************)
NewTask ==
    [pc |-> "created", keywords |-> <<>>, ki |-> 0, posts |-> <<>>, pi |-> 0,
     skipped |-> {}, min_score_at_call |-> <<>>, result |-> <<>>,
     analysis |-> <<>>, gate_config |-> <<>>, must_cancel |-> FALSE,
     had_error |-> FALSE]

\* Task.done()
Done(task) == task.pc \in {"finished", "cancelled"}

\* The positions inside the try block of lines 367-407.
InTry == {"scrape", "classify", "send", "sleep2", "sleep10"}

\* Locals are dropped where no later line reads them.
Cleared(task) ==
    [task EXCEPT !.keywords = <<>>, !.ki = 0, !.posts = <<>>, !.pi = 0,
                 !.skipped = {}, !.min_score_at_call = <<>>, !.result = <<>>,
                 !.analysis = <<>>, !.gate_config = <<>>, !.had_error = FALSE]

\* Faulty variant of is_seen: the membership test is lost, nothing counts as seen.
is_seen_never(pid, seen) == FALSE

\* line 374: post_id in seen_posts
is_seen(pid, seen) == pid \in seen

\* Faulty variant of ProcessPosts: a post that goes to the classifier is not
\* marked at first sight (the mark is left to a later line).
RECURSIVE ProcessPosts_mark_late(_, _, _, _)
ProcessPosts_mark_late(seen, posts, i, skipped) ==
    IF i > Len(posts) THEN [seen |-> seen, pi |-> 0, skipped |-> skipped]
    ELSE LET post == posts[i]
             pid == post_id(post)
         IN IF is_seen(pid, seen)
            THEN ProcessPosts_mark_late(seen, posts, i + 1, skipped \cup {pid})
            ELSE IF post.text = "" \/ Len(post.text) < MinTextLen
                 THEN ProcessPosts_mark_late(seen \cup {pid}, posts, i + 1,
                                             skipped)
            ELSE [seen |-> seen, pi |-> i, skipped |-> skipped]

\* Lines 372-386 from posts[i] on, up to the next await: skip seen posts, mark
\* the others, skip short texts, stop at the first post to classify.
\* pi = 0 when the for loop over posts is exhausted; skipped collects the
\* ids that took the continue of line 375.
RECURSIVE ProcessPosts(_, _, _, _)
ProcessPosts(seen, posts, i, skipped) ==
    IF i > Len(posts) THEN [seen |-> seen, pi |-> 0, skipped |-> skipped]
    ELSE LET post == posts[i]
             pid == post_id(post)
         IN IF is_seen(pid, seen)
            THEN ProcessPosts(seen, posts, i + 1, skipped \cup {pid})
            ELSE IF post.text = "" \/ Len(post.text) < MinTextLen
                 THEN ProcessPosts(seen \cup {pid}, posts, i + 1, skipped)
            ELSE [seen |-> seen \cup {pid}, pi |-> i, skipped |-> skipped]

\* What one resumption of a task does to the world.
Effect(task, seen, classified, sent) ==
    [task |-> task, seen |-> seen, classified |-> classified, sent |-> sent]

\* Continue the for loop over posts at index i.
continue_posts(task, seen, i) ==
    LET r == ProcessPosts(seen, task.posts, i, task.skipped)
    IN IF r.pi = 0
       THEN Effect([task EXCEPT !.pc = "sleep10", !.posts = <<>>, !.pi = 0,
                                !.skipped = {}, !.min_score_at_call = <<>>,
                                !.result = <<>>, !.analysis = <<>>],
                   r.seen, {}, {})
       ELSE Effect([task EXCEPT !.pc = "classify", !.pi = r.pi,
                                !.skipped = r.skipped,
                                !.min_score_at_call = << settings.min_score >>,
                                !.result = <<>>, !.analysis = <<>>],
                   r.seen, {post_id(task.posts[r.pi])}, {})

\* Lines 366-369: a cycle starts; the for statement takes the list object
\* that settings["keywords"] names at this moment.
begin_cycle(task, keywords) ==
    IF keywords = <<>> THEN [Cleared(task) EXCEPT !.pc = "sleep1800"]
    ELSE [Cleared(task) EXCEPT !.pc = "scrape", !.keywords = keywords, !.ki = 1]

\* Faulty variant of handle_exception: no except Exception clause, the exception
\* leaves the coroutine and the task is done.
handle_exception_fatal(task) ==
    [Cleared(task) EXCEPT !.pc = "finished", !.had_error = TRUE]

\* Lines 411-414: except Exception, log, then the inter-cycle sleep.
handle_exception(task) ==
    [Cleared(task) EXCEPT !.pc = "sleep1800", !.had_error = TRUE]

\* Faulty variant of deliver_cancel: the except Exception of scrape_threads swallows
\* a cancellation that arrives during the scrape, which then returns [].
deliver_cancel_swallowed(task) ==
    IF task.pc = "scrape"
    THEN [task EXCEPT !.pc = "sleep10", !.must_cancel = FALSE]
    ELSE [Cleared(task) EXCEPT !.pc = IF task.pc \in InTry THEN "finished"
                                      ELSE "cancelled",
                               !.must_cancel = FALSE]

\* CancelledError raised at the await the task is suspended on: inside the
\* try it is caught at line 409 and the loop breaks; at line 414, and in a
\* coroutine that never ran, it leaves the coroutine.
deliver_cancel(task) ==
    [Cleared(task) EXCEPT !.pc = IF task.pc \in InTry THEN "finished"
                                 ELSE "cancelled",
                          !.must_cancel = FALSE]

\* Faulty variant of below_threshold: <= for <.
below_or_at_threshold(score, min_score) == score <= min_score

\* line 388: analysis["relevance_score"] < settings["min_score"]
below_threshold(score, min_score) == score < min_score

\* Faulty variant of gate: the threshold is the one that was in effect when the
\* classifier call was started.
gate_with_threshold_at_call(task, seen, analysis, config) ==
    IF "relevance_score" \notin DOMAIN analysis
    THEN Effect(handle_exception(task), seen, {}, {})
    ELSE IF below_threshold(analysis.relevance_score, task.min_score_at_call[1])
    THEN continue_posts(task, seen, task.pi + 1)
    ELSE Effect([task EXCEPT !.pc = "send", !.result = <<>>,
                             !.analysis = <<analysis>>,
                             !.gate_config =
                                 << [min_score |->
                                         task.min_score_at_call[1]] >>],
                seen, {}, {post_id(task.posts[task.pi])})

\* Lines 388-403 for the awaited analysis: KeyError when the verdict has no
\* relevance_score, continue below the threshold, else send the lead.
gate(task, seen, analysis, config) ==
    IF "relevance_score" \notin DOMAIN analysis
    THEN Effect(handle_exception(task), seen, {}, {})
    ELSE IF below_threshold(analysis.relevance_score, config.min_score)
    THEN continue_posts(task, seen, task.pi + 1)
    ELSE Effect([task EXCEPT !.pc = "send", !.result = <<>>,
                             !.analysis = <<analysis>>,
                             !.gate_config =
                                 << [min_score |-> config.min_score] >>],
                seen, {}, {post_id(task.posts[task.pi])})

Apply(t, e) ==
    /\ tasks' = [tasks EXCEPT ![t] = e.task]
    /\ seen_posts' = e.seen
    /\ classify_calls' =
          [p \in AllIds |-> IF p \in e.classified THEN classify_calls[p] + 1
                            ELSE classify_calls[p]]
    /\ notifications' =
          [p \in AllIds |-> IF p \in e.sent THEN notifications[p] + 1
                            ELSE notifications[p]]
    /\ UNCHANGED <<settings, settings_file, monitoring_task>>

Resumable(t, pc) ==
    /\ t \in 1..Len(tasks)
    /\ tasks[t].pc = pc
    /\ ~tasks[t].must_cancel

\* First run of the coroutine, up to its first await.
TaskStart(t) ==
    /\ Resumable(t, "created")
    /\ Apply(t, Effect(begin_cycle(tasks[t], settings.keywords),
                       seen_posts, {}, {}))

\* scrape_threads returns; the posts are walked up to the next await.
ScrapeDone(t, page) ==
    /\ Resumable(t, "scrape")
    /\ LET task == tasks[t]
           posts == scrape_threads(page, task.keywords[task.ki])
       IN Apply(t, continue_posts([task EXCEPT !.posts = posts], seen_posts, 1))

\* The executor thread finishes analyze_post and resolves the future.
ClassifierDone(t, response) ==
    /\ Resumable(t, "classify")
    /\ tasks[t].result = <<>>
    /\ tasks' = [tasks EXCEPT ![t].result =
                    << [response |-> response,
                        outcome |-> analyze_post(response)] >>]
    /\ UNCHANGED <<settings, settings_file, seen_posts, monitoring_task,
                   classify_calls, notifications>>

\* The task resumes with the future's result: raise, or lines 388-403.
ClassifyResume(t) ==
    /\ Resumable(t, "classify")
    /\ tasks[t].result # <<>>
    /\ LET out == tasks[t].result[1].outcome
       IN IF out.raised
          THEN Apply(t, Effect(handle_exception(tasks[t]), seen_posts, {}, {}))
          ELSE Apply(t, gate(tasks[t], seen_posts, out.value, settings))

\* send_message returns (line 405 follows) or raises.
SendDone(t, ok) ==
    /\ Resumable(t, "send")
    /\ IF ok
       THEN Apply(t, Effect([tasks[t] EXCEPT !.pc = "sleep2", !.analysis = <<>>,
                                             !.gate_config = <<>>,
                                             !.min_score_at_call = <<>>],
                            seen_posts, {}, {}))
       ELSE Apply(t, Effect(handle_exception(tasks[t]), seen_posts, {}, {}))

\* sleep(2) is over: next post.
Sleep2Done(t) ==
    /\ Resumable(t, "sleep2")
    /\ Apply(t, continue_posts(tasks[t], seen_posts, tasks[t].pi + 1))

\* sleep(10) is over: next keyword of the list being iterated, or line 414.
Sleep10Done(t) ==
    /\ Resumable(t, "sleep10")
    /\ LET task == tasks[t]
       IN Apply(t, Effect(IF task.ki < Len(task.keywords)
                          THEN [task EXCEPT !.pc = "scrape", !.ki = task.ki + 1]
                          ELSE [Cleared(task) EXCEPT !.pc = "sleep1800"],
                          seen_posts, {}, {}))

\* sleep(1800) is over: while True starts the next cycle.
Sleep1800Done(t) ==
    /\ Resumable(t, "sleep1800")
    /\ Apply(t, Effect(begin_cycle(tasks[t], settings.keywords),
                       seen_posts, {}, {}))

\* The resumption after Task.cancel().
CancelDelivered(t) ==
    /\ t \in 1..Len(tasks)
    /\ tasks[t].must_cancel
    /\ ~Done(tasks[t])
    /\ Apply(t, Effect(deliver_cancel(tasks[t]), seen_posts, {}, {}))

(***************************************************************************)
(* Command handlers.  The reply a handler sends is not part of the state.  *)
(***************************************************************************)
Pipeline == <<seen_posts, tasks, monitoring_task, classify_calls, notifications>>

\* A setter's two lines: settings[key] = value; save_settings(settings)
Store(key, value) ==
    /\ settings' = [settings EXCEPT ![key] = value]
    /\ settings_file' = save_settings(settings')
    /\ UNCHANGED Pipeline

\* Faulty variant of set_keywords: the test of lines 274-276 is missing.
set_keywords_unchecked(args) == Store("keywords", Dedup(args))

set_keywords(args) ==
    IF args = <<>> THEN UNCHANGED vars
    ELSE Store("keywords", Dedup(args))

set_product(args) == Store("your_product", Join(args))

set_name(args) == Store("your_name", Join(args))

set_language(args) == Store("language", IF args # <<>> THEN args[1] ELSE "uk")

\* IndexError (no argument) and ValueError (not an integer) are both caught
\* before anything is assigned.
set_score(args) ==
    IF args = <<>> \/ ParseInt(args[1]) = <<>> THEN UNCHANGED vars
    ELSE Store("min_score", Clamp(ParseInt(args[1])[1]))

status == UNCHANGED vars

toggle_mode ==
    Store("mode", IF settings.mode = "notify" THEN "auto_send" ELSE "notify")

\* Faulty variant of is_running: a task whose cancellation was requested counts as
\* stopped before it is done.
is_running_unless_cancelling(mt, ts) ==
    mt # 0 /\ ~Done(ts[mt]) /\ ~ts[mt].must_cancel

\* monitoring_task and not monitoring_task.done()
is_running(mt, ts) == mt # 0 /\ ~Done(ts[mt])

\* Faulty variant of no_keywords: the check of lines 343-345 is missing.
no_keywords_unchecked(config) == FALSE

\* not settings["keywords"]
no_keywords(config) == config.keywords = <<>>

start_monitor ==
    IF no_keywords(settings) THEN UNCHANGED vars
    ELSE IF is_running(monitoring_task, tasks) THEN UNCHANGED vars
    ELSE /\ Len(tasks) < MaxTasks
         /\ tasks' = Append(tasks, NewTask)
         /\ monitoring_task' = Len(tasks) + 1
         /\ UNCHANGED <<settings, settings_file, seen_posts, classify_calls,
                        notifications>>

\* Faulty variant of stop_monitor: stopping also forgets the seen posts.
stop_monitor_forgetting ==
    IF is_running(monitoring_task, tasks)
    THEN /\ tasks' = [tasks EXCEPT ![monitoring_task].must_cancel = TRUE]
         /\ seen_posts' = {}
         /\ UNCHANGED <<settings, settings_file, monitoring_task,
                        classify_calls, notifications>>
    ELSE UNCHANGED vars

stop_monitor ==
    IF is_running(monitoring_task, tasks)
    THEN /\ tasks' = [tasks EXCEPT ![monitoring_task].must_cancel = TRUE]
         /\ UNCHANGED <<settings, settings_file, seen_posts, monitoring_task,
                        classify_calls, notifications>>
    ELSE UNCHANGED vars

(***************************************************************************)
(* The specification.                                                      *)
(***************************************************************************)
Init ==
    /\ settings_file \in InitFiles
    /\ settings = load_settings(settings_file)
    /\ seen_posts = {}
    /\ tasks = <<>>
    /\ monitoring_task = 0
    /\ classify_calls = [p \in AllIds |-> 0]
    /\ notifications = [p \in AllIds |-> 0]

TaskIds == 1..MaxTasks

Next ==
    \/ \E args \in KeywordArgs : set_keywords(args)
    \/ \E args \in ProductArgs : set_product(args)
    \/ \E args \in NameArgs : set_name(args)
    \/ \E args \in LanguageArgs : set_language(args)
    \/ \E args \in ScoreArgs : set_score(args)
    \/ status
    \/ toggle_mode
    \/ start_monitor
    \/ stop_monitor
    \/ \E t \in TaskIds : TaskStart(t)
    \/ \E t \in TaskIds, page \in Pages : ScrapeDone(t, page)
    \/ \E t \in TaskIds, response \in Responses : ClassifierDone(t, response)
    \/ \E t \in TaskIds : ClassifyResume(t)
    \/ \E t \in TaskIds, ok \in BOOLEAN : SendDone(t, ok)
    \/ \E t \in TaskIds : Sleep2Done(t)
    \/ \E t \in TaskIds : Sleep10Done(t)
    \/ \E t \in TaskIds : Sleep1800Done(t)
    \/ \E t \in TaskIds : CancelDelivered(t)

Spec == Init /\ [][Next]_vars

(***************************************************************************)
(* The configuration commands alone, over a wider range of arguments: the  *)
(* setters read and write nothing but settings and the settings file.      *)
(***************************************************************************)
ConfigNext ==
    \/ \E args \in ConfigKeywordArgs : set_keywords(args)
    \/ \E args \in ConfigProductArgs : set_product(args)
    \/ \E args \in ConfigNameArgs : set_name(args)
    \/ \E args \in ConfigLanguageArgs : set_language(args)
    \/ \E args \in ConfigScoreArgs : set_score(args)
    \/ status
    \/ toggle_mode

ConfigSpec == Init /\ [][ConfigNext]_vars

(***************************************************************************)
(* Vocabulary of the properties.                                           *)
(***************************************************************************)
Tasks == 1..Len(tasks)

Live == { t \in Tasks : ~Done(tasks[t]) }

\* The id of the post task t is working on.
CurId(t) == post_id(tasks[t].posts[tasks[t].pi])

\* Task t ran in this step (start_monitor and stop_monitor do not run it).
Ran(t) ==
    /\ tasks'[t] # tasks[t]
    /\ tasks'[t].must_cancel = tasks[t].must_cancel

\* Task t is about to resume from the classifier await with a result.
AtGate(t) ==
    /\ tasks[t].pc = "classify"
    /\ tasks[t].result # <<>>
    /\ ~tasks[t].must_cancel

\* A send_message call for post id p starts in this step.
SendStarts(p) == notifications'[p] = notifications[p] + 1

\* The response's text is not valid JSON.
NotJson(response) == ~response.failed /\ json_loads(response.text) = <<>>

InsightFields == {"likely_role", "company_stage", "buying_intent", "personality"}

(***************************************************************************)
(* C1.  A post id that is in the fingerprint set is skipped by every later *)
(* batch: in one run the classifier is invoked at most once per id, a      *)
(* notification is sent at most once per id, and every id that was         *)
(* classified or skipped is in the set, across cycles, keywords and        *)
(* restarts of the monitor.                                                *)
(***************************************************************************)
C1_AtMostOncePerId ==
    /\ \A p \in AllIds :
          /\ classify_calls[p] <= 1
          /\ notifications[p] <= 1
          /\ classify_calls[p] > 0 => p \in seen_posts
    /\ \A t \in Tasks : tasks[t].skipped \subseteq seen_posts

\* A restarted monitor skipped an id that was classified and notified before,
\* and went on to the next post of the batch.
C1_Witness ==
    \E p \in AllIds :
        /\ Len(tasks) = 2
        /\ tasks[2].pc = "classify"
        /\ p \in tasks[2].skipped
        /\ classify_calls[p] = 1
        /\ notifications[p] = 1

(***************************************************************************)
(* C2.  At most one monitor_loop task is not done, and it is the one       *)
(* monitoring_task names: no start_monitor creates a second live task,     *)
(* also not between a stop request and the task's exit.                    *)
(***************************************************************************)
C2_SingleLiveTask ==
    /\ Cardinality(Live) <= 1
    /\ \A t \in Live : t = monitoring_task

\* A second task runs after the first was stopped and became done.
C2_Witness ==
    /\ Len(tasks) = 2
    /\ Done(tasks[1])
    /\ tasks[2].pc = "scrape"

(***************************************************************************)
(* C3.  When the task resumes with a verdict that has a relevance_score,   *)
(* send_message is called for the post iff relevance_score >= min_score;   *)
(* and a verdict that passes a threshold passes every lower one.           *)
(***************************************************************************)
GateMonotone ==
    \A score \in ScoreFloor..ScoreCeil :
    \A low \in ScoreFloor..ScoreCeil :
    \A high \in low..ScoreCeil :
        ~below_threshold(score, high) => ~below_threshold(score, low)

C3_GateIffScoreAtLeastMin ==
    /\ GateMonotone
    /\ [][ \A t \in Tasks :
             ( /\ AtGate(t)
               /\ Ran(t)
               /\ ~tasks[t].result[1].outcome.raised
               /\ "relevance_score" \in
                      DOMAIN tasks[t].result[1].outcome.value )
             => ( SendStarts(CurId(t))
                  <=> tasks[t].result[1].outcome.value.relevance_score
                          >= settings.min_score )
          ]_vars

\* A lead whose score equals the threshold is being sent.
C3_Witness ==
    \E t \in Tasks :
        /\ tasks[t].pc = "send"
        /\ tasks[t].analysis[1].relevance_score = tasks[t].gate_config[1].min_score
        /\ notifications[CurId(t)] = 1

(***************************************************************************)
(* C4.  The keyword filter of the specification: a case-insensitive        *)
(* substring match of any configured keyword against the post's text.      *)
(* bot.py has no such filter; these definitions state the claim only.      *)
(***************************************************************************)
UpperCase == "ABCDEFGHIJKLMNOPQRSTUVWXYZ"
LowerCase == "abcdefghijklmnopqrstuvwxyz"

LowerChar(c) ==
    IF \E i \in 1..26 : SubSeq(UpperCase, i, i) = c
    THEN LET i == CHOOSE k \in 1..26 : SubSeq(UpperCase, k, k) = c
         IN SubSeq(LowerCase, i, i)
    ELSE c

ContainsIgnoringCase(text, keyword) ==
    \E i \in 1..(Len(text) - Len(keyword) + 1) :
        \A j \in 1..Len(keyword) :
            LowerChar(SubSeq(text, i + j - 1, i + j - 1))
                = LowerChar(SubSeq(keyword, j, j))

matches(post, keywords) ==
    \E k \in Range(keywords) : ContainsIgnoringCase(post.text, k)

\* analyze_post is invoked for task t's current post in this step.
ClassifierInvoked(t) ==
    /\ tasks'[t].pc = "classify"
    /\ tasks'[t].result = <<>>
    /\ classify_calls'[CurId(t)'] = classify_calls[CurId(t)'] + 1

\* C4 as claimed: a post is submitted to the classifier, and a lead is sent,
\* only if its text contains one of the configured keywords.
C4_KeywordFilterBeforeClassifier ==
    [][ \A t \in Tasks :
          /\ ClassifierInvoked(t) =>
                matches(tasks'[t].posts[tasks'[t].pi], settings.keywords)
          /\ (AtGate(t) /\ Ran(t) /\ tasks'[t].pc = "send") =>
                matches(tasks[t].posts[tasks[t].pi], settings.keywords)
      ]_vars

(***************************************************************************)
(* C5.  As claimed: when the send of a lead returns and the mode is        *)
(* auto_send, a second send_message call (the outreach draft) starts for   *)
(* the same post; under notify the post keeps exactly one message.         *)
(***************************************************************************)
C5_AutoSendSecondMessage ==
    [][ \A t \in Tasks :
          ( /\ tasks[t].pc = "send"
            /\ ~tasks[t].must_cancel
            /\ Ran(t)
            /\ ~tasks'[t].had_error )
          => IF settings.mode = "auto_send"
             THEN SendStarts(CurId(t))
             ELSE notifications'[CurId(t)] = 1
      ]_vars

(***************************************************************************)
(* C6.  As claimed: the classifier future never resolves to an exception   *)
(* or to a verdict without relevance_score; a failed or malformed answer   *)
(* yields the degraded verdict with score 5.                               *)
(***************************************************************************)
C6_ClassifierFailureDegrades ==
    \A t \in Tasks :
        tasks[t].result # <<>> =>
            LET r == tasks[t].result[1]
            IN /\ ~r.outcome.raised
               /\ "relevance_score" \in DOMAIN r.outcome.value
               /\ (r.response.failed \/ NotJson(r.response))
                     => r.outcome.value.relevance_score = DegradedScore

(***************************************************************************)
(* C7.  For a response whose text is not valid JSON, analyze_post returns  *)
(* a verdict with relevance_score 5, no pain points and the four default   *)
(* author_insights fields, and when the task resumes with it the lead is   *)
(* sent iff min_score <= 5.                                                *)
(***************************************************************************)
C7_DegradedVerdictOnInvalidJson ==
    [][ \A t \in Tasks :
          (AtGate(t) /\ Ran(t) /\ NotJson(tasks[t].result[1].response))
          => LET out == tasks[t].result[1].outcome
             IN /\ ~out.raised
                /\ out.value.relevance_score = 5
                /\ out.value.pain_points = <<>>
                /\ DOMAIN out.value.author_insights = InsightFields
                /\ (tasks'[t].pc = "send" /\ SendStarts(CurId(t)))
                      <=> settings.min_score <= 5
      ]_vars

\* A lead built from the degraded verdict is being sent.
C7_Witness ==
    \E t \in Tasks :
        /\ tasks[t].pc = "send"
        /\ tasks[t].analysis[1].pain_points = <<>>
        /\ tasks[t].analysis[1].author_insights.buying_intent = "medium"
        /\ tasks[t].gate_config[1].min_score <= 5

(***************************************************************************)
(* C8.  While a cancellation is pending for a task, the only thing the     *)
(* task does is become done: it runs no pipeline step, no classifier call  *)
(* and no send_message call starts, and the fingerprint set is unchanged,  *)
(* at whichever await the stop request found it.                           *)
(***************************************************************************)
C8_CancelStopsAtCurrentAwait ==
    [][ \A t \in Tasks :
          tasks[t].must_cancel =>
              /\ tasks'[t] = tasks[t] \/ Done(tasks'[t])
              /\ UNCHANGED <<notifications, classify_calls, seen_posts>>
      ]_vars

\* A task that was stopped inside a cycle, after it had seen posts.
C8_Witness ==
    \E t \in Tasks :
        /\ tasks[t].pc = "finished"
        /\ seen_posts # {}

(***************************************************************************)
(* C9.  An exception inside a cycle leads to the inter-cycle sleep, from   *)
(* which the task starts the next cycle; a task becomes done only in a     *)
(* step with a pending stop request.                                       *)
(***************************************************************************)
C9_ExceptionKeepsTaskAlive ==
    [][ \A t \in Tasks :
          /\ (tasks'[t].had_error /\ ~tasks[t].had_error)
                => tasks'[t].pc = "sleep1800"
          /\ (tasks[t].had_error /\ ~tasks[t].must_cancel /\ Ran(t))
                => tasks'[t].pc \in {"scrape", "sleep1800"}
          /\ (Done(tasks'[t]) /\ ~Done(tasks[t])) => tasks[t].must_cancel
      ]_vars

\* A task sleeping the inter-cycle interval after an exception.
C9_Witness ==
    \E t \in Tasks :
        /\ tasks[t].pc = "sleep1800"
        /\ tasks[t].had_error
        /\ ~tasks[t].must_cancel

(***************************************************************************)
(* C10.  While the keyword list is empty no monitoring task exists or is   *)
(* created, and a start_monitor step changes nothing: neither the task     *)
(* state, nor the fingerprint set, nor the configuration.                  *)
(***************************************************************************)
C10_StartWithoutKeywordsRejected ==
    [][ settings.keywords = <<>> =>
          /\ tasks' = <<>>
          /\ monitoring_task' = 0
          /\ start_monitor =>
                UNCHANGED <<tasks, monitoring_task, seen_posts, settings,
                            settings_file>>
      ]_vars

\* The keyword list is empty after the operator changed other settings; a
\* start_monitor here is the rejected one.
C10_Witness ==
    /\ settings.keywords = <<>>
    /\ settings.min_score # DefaultMinScore
    /\ tasks = <<>>

(***************************************************************************)
(* C11.  With a keyword configured, start_monitor creates a new task,      *)
(* which monitoring_task then names, exactly when no task was started yet  *)
(* or the previous one is done; while the previous task is not done, also  *)
(* after a stop request it has not yet honoured, no task is created.       *)
(***************************************************************************)
StartAccepted ==
    /\ start_monitor
    /\ Len(tasks') = Len(tasks) + 1
    /\ monitoring_task' = Len(tasks')
    /\ tasks'[monitoring_task'].pc = "created"
    /\ ~Done(tasks'[monitoring_task'])

PreviousDone == monitoring_task = 0 \/ Done(tasks[monitoring_task])

C11_RestartAfterDone ==
    /\ []( (settings.keywords # <<>> /\ PreviousDone /\ Len(tasks) < MaxTasks)
              => ENABLED StartAccepted )
    /\ [][ ~PreviousDone => Len(tasks') = Len(tasks) ]_vars

\* A second task was created after the first was cancelled and became done.
C11_Witness ==
    /\ Len(tasks) = 2
    /\ tasks[1].pc \in {"finished", "cancelled"}
    /\ monitoring_task = 2
    /\ tasks[2].pc = "created"

(***************************************************************************)
(* C12.  min_score is always an integer in 0..10: set_score stores an      *)
(* in-range argument as given, 0 for an argument below 0 and 10 for one    *)
(* above 10, and changes no other key; with no argument, or a first        *)
(* argument that is not an integer, it changes neither the settings nor    *)
(* the settings file.                                                      *)
(***************************************************************************)
ScoreRejected == { <<>>, <<"abc">>, <<"6.5">> }

ScoreStored ==
    { <<"5", 5>>, <<"6", 6>>, <<"0", 0>>, <<"10", 10>>, <<"7", 7>>,
      <<"-1", 0>>, <<"-3", 0>>, <<"11", 10>>, <<"42", 10>> }

C12_MinScoreClamped ==
    /\ [](settings.min_score \in 0..10)
    /\ [][ \A args \in ConfigScoreArgs :
             (<<settings, settings_file>>' # <<settings, settings_file>>
                 /\ set_score(args)) =>
                 /\ args \notin ScoreRejected
                 /\ <<args[1], settings'.min_score>> \in ScoreStored
                 /\ \A k \in DOMAIN settings \ {"min_score"} :
                        settings'[k] = settings[k]
          ]_vars

\* A negative argument was stored as 0.
C12_Witness ==
    /\ settings.min_score = 0
    /\ settings_file # <<>>

(***************************************************************************)
(* C13.  Every step that changes the settings or the settings file leaves  *)
(* a file from which load_settings returns exactly the in-memory settings, *)
(* every key included; set_keywords without arguments and set_score with   *)
(* a missing or non-integer argument write nothing.                        *)
(***************************************************************************)
C13_PersistedEqualsMemory ==
    [][ <<settings, settings_file>>' # <<settings, settings_file>> =>
          /\ settings_file' # <<>>
          /\ DOMAIN settings_file'[1] = DOMAIN settings'
          /\ load_settings(settings_file') = settings'
          /\ ~set_keywords(<<>>)
          /\ \A args \in ScoreRejected : ~set_score(args)
      ]_vars

\* The file holds the settings after the keywords, the threshold, the mode
\* and the product were changed; the product has characters JSON escapes.
C13_Witness ==
    /\ settings.keywords = <<"erp", "crm", "b2b">>
    /\ settings.min_score = 10
    /\ settings.mode = "auto_send"
    /\ settings.your_product = "the \"best\" crm"
    /\ settings_file # <<>>
    /\ settings_file[1].min_score = "10"
    /\ settings_file[1].keywords = << "\"erp\"", "\"crm\"", "\"b2b\"" >>
    /\ settings_file[1].your_product = "\"the \\\"best\\\" crm\""

(***************************************************************************)
(* C14.  The resumption after scrape_threads never takes the exception     *)
(* path: the task goes on in the same cycle, with the same keyword list,   *)
(* to the classifier or to the sleep before the next keyword.  A failed    *)
(* fetch gives no posts, so nothing is marked seen and the task sleeps and *)
(* then scrapes the next keyword.  No batch has more than 20 records.      *)
(***************************************************************************)
C14_ScrapeNeverRaises ==
    /\ [](\A t \in Tasks : Len(tasks[t].posts) <= 20)
    /\ [][ \A t \in Tasks :
             /\ (tasks[t].pc = "scrape" /\ ~tasks[t].must_cancel /\ Ran(t)) =>
                   /\ tasks'[t].pc \in {"classify", "sleep10"}
                   /\ ~tasks'[t].had_error
                   /\ tasks'[t].keywords = tasks[t].keywords
                   /\ tasks'[t].ki = tasks[t].ki
                   /\ \A page \in Pages :
                         (page.error /\ ScrapeDone(t, page)) =>
                             /\ tasks'[t].pc = "sleep10"
                             /\ seen_posts' = seen_posts
             /\ ( /\ tasks[t].pc = "sleep10"
                  /\ ~tasks[t].must_cancel
                  /\ Ran(t)
                  /\ tasks[t].ki < Len(tasks[t].keywords) ) =>
                   /\ tasks'[t].pc = "scrape"
                   /\ tasks'[t].ki = tasks[t].ki + 1
          ]_vars

\* A page with 21 matches gave a batch of 20, and the task scrapes the second
\* keyword of its list (the first keyword's scrape returned).
C14_Witness ==
    \E t \in Tasks :
        /\ tasks[t].pc = "classify"
        /\ Len(tasks[t].posts) = 20
        /\ tasks[t].ki = 2

(***************************************************************************)
(* C15.  The keyword list never holds an entry twice.  A step that changes *)
(* it is a set_keywords with at least one argument, and the new list has   *)
(* exactly the arguments' values, each once, ordered by first occurrence;  *)
(* set_keywords without arguments changes nothing.                         *)
(***************************************************************************)
NoDuplicates(list) ==
    \A i, j \in 1..Len(list) : i # j => list[i] # list[j]

FirstIndex(list, x) ==
    CHOOSE i \in 1..Len(list) :
        list[i] = x /\ \A j \in 1..(i - 1) : list[j] # x

FirstOccurrences(list, args) ==
    /\ NoDuplicates(list)
    /\ Range(list) = Range(args)
    /\ \A i, j \in 1..Len(list) :
          i < j => FirstIndex(args, list[i]) < FirstIndex(args, list[j])

C15_KeywordsDeduplicated ==
    /\ [](NoDuplicates(settings.keywords))
    /\ [][ /\ settings'.keywords # settings.keywords =>
                \E args \in ConfigKeywordArgs \ { <<>> } : set_keywords(args)
           /\ \A args \in ConfigKeywordArgs :
                (<<settings, settings_file>>' # <<settings, settings_file>>
                    /\ set_keywords(args)) =>
                    /\ args # <<>>
                    /\ FirstOccurrences(settings'.keywords, args)
                    /\ \A k \in DOMAIN settings \ {"keywords"} :
                           settings'[k] = settings[k]
         ]_vars

\* Five arguments with two repeats were stored as three keywords.
C15_Witness ==
    /\ settings.keywords = <<"erp", "crm", "b2b">>
    /\ settings_file # <<>>
    /\ Len(settings_file[1].keywords) = 3

(***************************************************************************)
(* C16.  The classifier is invoked only for a post whose id was not in the *)
(* fingerprint set, and the id is in the set by the time the call is in    *)
(* flight; ids are never removed.  So while a post is being classified or  *)
(* sent its id is in the set, and whatever ends that work (an exception, a *)
(* cancellation), no classifier call and no send starts later for an id    *)
(* that is in the set other than the send of the post being classified.    *)
(***************************************************************************)
C16_MarkedBeforeClassified ==
    /\ [](\A t \in Tasks :
             tasks[t].pc \in {"classify", "send", "sleep2"}
                 => CurId(t) \in seen_posts)
    /\ [][ /\ seen_posts \subseteq seen_posts'
           /\ \A t \in Tasks :
                 ClassifierInvoked(t) =>
                     /\ CurId(t)' \notin seen_posts
                     /\ CurId(t)' \in seen_posts'
           /\ \A p \in AllIds :
                 /\ classify_calls'[p] # classify_calls[p] => p \notin seen_posts
                 /\ SendStarts(p) =>
                       /\ p \in seen_posts
                       /\ \E t \in Tasks : AtGate(t) /\ Ran(t) /\ CurId(t) = p
         ]_vars

\* The only post seen so far failed in classification (no send was started
\* for it): it is in the fingerprint set while the task sleeps until the
\* next cycle.
C16_Witness ==
    \E t \in Tasks : \E p \in AllIds :
        /\ tasks[t].pc = "sleep1800"
        /\ tasks[t].had_error
        /\ seen_posts = {p}
        /\ classify_calls[p] = 1
        /\ notifications[p] = 0

(***************************************************************************)
(* C17.  As claimed: within a batch a delay step lies between the work on  *)
(* any two posts, so a classifier call never starts in the step that       *)
(* resumes from the previous post's classifier call (the gate rejected     *)
(* that post), nor in the step that resumes from a send.                   *)
(***************************************************************************)
C17_DelayBetweenPosts ==
    [][ \A t \in Tasks :
          ClassifierInvoked(t) => tasks[t].pc \notin {"classify", "send"}
      ]_vars

(***************************************************************************)
(* C18.  A start_monitor step, a stop_monitor step, a status step and the  *)
(* step in which a task exits on its cancellation change neither the       *)
(* fingerprint set, nor any settings key, nor the settings file; the       *)
(* rejected start and stop, and status, change nothing at all.             *)
(***************************************************************************)
ControlStep ==
    \/ start_monitor
    \/ stop_monitor
    \/ status
    \/ \E t \in Tasks : CancelDelivered(t)

StartRejected == no_keywords(settings) \/ is_running(monitoring_task, tasks)

PipelineData == <<seen_posts, settings, settings_file>>

\* Stated by contraposition: a step that changes the data is no control step.
C18_ControlLeavesDataAlone ==
    [][ /\ PipelineData' # PipelineData =>
              /\ ~ControlStep
              /\ \A t \in Tasks : ~(tasks[t].must_cancel /\ Ran(t))
        /\ StartRejected => ~(start_monitor /\ vars' # vars)
        /\ ~is_running(monitoring_task, tasks) =>
              ~(stop_monitor /\ vars' # vars)
      ]_vars

\* A stop was accepted and the cancelled task has exited, with posts in the
\* fingerprint set and settings that had been changed; no second task yet.
C18_Witness ==
    /\ Len(tasks) = 1
    /\ Done(tasks[1])
    /\ seen_posts # {}
    /\ settings.mode = "auto_send"

(***************************************************************************)
(* C19.  While a monitor task is not done the keyword list is not empty,   *)
(* whatever commands arrive while it runs; and no step empties a list that *)
(* has a keyword.                                                          *)
(***************************************************************************)
C19_KeywordsWhileRunning ==
    /\ [](Live # {} => settings.keywords # <<>>)
    /\ [][ settings.keywords # <<>> => settings'.keywords # <<>> ]_vars

\* The keyword list was replaced while the task was in a cycle over the
\* previous list.
C19_Witness ==
    \E t \in Live :
        /\ tasks[t].pc = "scrape"
        /\ tasks[t].keywords = <<"crm">>
        /\ settings.keywords = <<"crm", "erp">>

(***************************************************************************)
(* C20.  The gate compares the verdict with settings["min_score"] as it is *)
(* when the task resumes from the classifier call, whatever it was when    *)
(* the call was started.  The keywords of a cycle are the list that        *)
(* settings["keywords"] named when the cycle began: every scrape of the    *)
(* cycle takes its keyword from that list, the cycle visits each entry of  *)
(* it in order and then sleeps until the next cycle, which takes the list  *)
(* configured by then.                                                     *)
(***************************************************************************)
Steps(t) == Ran(t) /\ ~tasks[t].must_cancel

C20_ConfigInterleaving ==
    [][ \A t \in Tasks :
          /\ ( /\ AtGate(t)
               /\ Steps(t)
               /\ ~tasks[t].result[1].outcome.raised
               /\ "relevance_score" \in DOMAIN tasks[t].result[1].outcome.value )
             => LET score == tasks[t].result[1].outcome.value.relevance_score
                IN IF score >= settings.min_score
                   THEN /\ tasks'[t].pc = "send"
                        /\ tasks'[t].gate_config[1].min_score = settings.min_score
                   ELSE tasks'[t].pc # "send"
          /\ (tasks[t].pc \in {"created", "sleep1800"} /\ Steps(t)) =>
                /\ tasks'[t].pc = "scrape"
                /\ tasks'[t].keywords = settings.keywords
                /\ tasks'[t].ki = 1
          /\ (tasks[t].pc \in InTry /\ Steps(t) /\ tasks'[t].pc \in InTry) =>
                /\ tasks'[t].keywords = tasks[t].keywords
                /\ tasks'[t].ki =
                      tasks[t].ki + (IF tasks[t].pc = "sleep10" THEN 1 ELSE 0)
                /\ tasks'[t].ki \in 1..Len(tasks[t].keywords)
          /\ (tasks[t].pc = "scrape" /\ Steps(t)) =>
                \A i \in 1..Len(tasks'[t].posts) :
                    tasks'[t].posts[i].keyword = tasks[t].keywords[tasks[t].ki]
          /\ (tasks[t].pc = "sleep10" /\ Steps(t)
                 /\ tasks[t].ki = Len(tasks[t].keywords)) =>
                tasks'[t].pc = "sleep1800"
      ]_vars

\* A lead is being sent that the threshold at the start of its classifier
\* call would have rejected (the threshold was lowered while the call was
\* in flight), in a cycle over a keyword list that was replaced meanwhile.
C20_Witness ==
    \E t \in Tasks :
        /\ tasks[t].pc = "send"
        /\ tasks[t].min_score_at_call[1] > tasks[t].analysis[1].relevance_score
        /\ tasks[t].gate_config[1].min_score
              <= tasks[t].analysis[1].relevance_score
        /\ tasks[t].keywords = <<"crm">>
        /\ settings.keywords = <<"crm", "erp">>

====
